---- MODULE Spec2Model ----
(***************************************************************************)
(* Audio Ingestion API (audio.py): POST /upload, GET /health, GET /files,  *)
(* GET / over one storage directory on the local file system.              *)
(*                                                                         *)
(* Strings the code inspects (file names, paths) are sequences of          *)
(* one-character strings.  A file's content is a sequence of runs          *)
(* [tag, n]: n bytes of the byte stream named tag; two contents are equal  *)
(* as byte strings iff their normal forms (Norm) are equal.                *)
(***************************************************************************)
EXTENDS Integers, Sequences, FiniteSets, TLC

(* ------------------------------ bounds -------------------------------- *)

\* uploads started in one behaviour of Spec
MaxUploads == 2

\* uploads started in one behaviour of SpecValidation
MaxValidated == 1

(* --------------------------- string helpers --------------------------- *)

Uppers == <<"A", "G", "M", "O", "P", "V", "W">>
Lowers == <<"a", "g", "m", "o", "p", "v", "w">>

\* str.lower() on one character
LowerChar(c) ==
    IF \E i \in 1..Len(Uppers) : Uppers[i] = c
    THEN Lowers[CHOOSE i \in 1..Len(Uppers) : Uppers[i] = c]
    ELSE c

\* str.lower()
Lower(s) == [i \in 1..Len(s) |-> LowerChar(s[i])]

\* str.rfind(c), 1-based; 0 when c does not occur
RFind(s, c) ==
    IF \E i \in 1..Len(s) : s[i] = c
    THEN CHOOSE i \in 1..Len(s) : s[i] = c /\ \A j \in (i+1)..Len(s) : s[j] # c
    ELSE 0

\* os.path.splitext(p)[1]: the text from the last dot of the last path
\* component, unless that component consists of leading dots only before it
SplitExt(p) ==
    LET sepIndex == RFind(p, "/")
        dotIndex == RFind(p, ".")
    IN  IF dotIndex > sepIndex
           /\ \E i \in (sepIndex+1)..(dotIndex-1) : p[i] # "."
        THEN SubSeq(p, dotIndex, Len(p))
        ELSE <<>>

\* str.lstrip('.')
RECURSIVE LStripDots(_)
LStripDots(s) ==
    IF s # <<>> /\ Head(s) = "." THEN LStripDots(Tail(s)) ELSE s

\* os.path.basename
Basename(p) == SubSeq(p, RFind(p, "/") + 1, Len(p))

\* os.path.join(a, b)
PathJoin(a, b) ==
    IF b # <<>> /\ Head(b) = "/" THEN b
    ELSE IF a = <<>> \/ a[Len(a)] = "/" THEN a \o b
    ELSE a \o <<"/">> \o b

\* the components of a path: the text between the separators
RECURSIVE SplitPath(_)
SplitPath(p) ==
    LET i == IF \E k \in 1..Len(p) : p[k] = "/"
             THEN CHOOSE k \in 1..Len(p) : p[k] = "/" /\ \A j \in 1..(k-1) : p[j] # "/"
             ELSE 0
    IN  IF i = 0 THEN <<p>>
        ELSE <<SubSeq(p, 1, i-1)>> \o SplitPath(SubSeq(p, i+1, Len(p)))

(* ------------------------------ contents ------------------------------ *)

MiB == 1024 * 1024

Run(tag, n) == <<[tag |-> tag, n |-> n]>>

RECURSIVE Size(_)
\* len(file_content), os.path.getsize
Size(c) == IF c = <<>> THEN 0 ELSE Head(c).n + Size(Tail(c))

RECURSIVE Norm(_)
\* normal form: no empty run, no two adjacent runs of one tag
Norm(c) ==
    IF c = <<>> THEN <<>>
    ELSE IF Head(c).n = 0 THEN Norm(Tail(c))
    ELSE LET r == Norm(Tail(c))
         IN  IF r # <<>> /\ Head(r).tag = Head(c).tag
             THEN <<[tag |-> Head(c).tag, n |-> Head(c).n + Head(r).n]>> \o Tail(r)
             ELSE <<Head(c)>> \o r

RECURSIVE Take(_, _)
\* the first k bytes of c
Take(c, k) ==
    IF k <= 0 \/ c = <<>> THEN <<>>
    ELSE IF Head(c).n >= k THEN <<[tag |-> Head(c).tag, n |-> k]>>
    ELSE <<Head(c)>> \o Take(Tail(c), k - Head(c).n)

RECURSIVE Drop(_, _)
\* c without its first k bytes
Drop(c, k) ==
    IF c = <<>> THEN <<>>
    ELSE IF k <= 0 THEN c
    ELSE IF Head(c).n > k
         THEN <<[tag |-> Head(c).tag, n |-> Head(c).n - k]>> \o Tail(c)
    ELSE Drop(Tail(c), k - Head(c).n)

\* round(n / (1024 * 1024), 2), in hundredths of a MiB.  n / 2^20 is exact in
\* a float, and round() rounds an exact tie to the even neighbour.
SizeMb(n) ==
    LET low == (n % MiB) * 100
        q == (n \div MiB) * 100 + low \div MiB
        r == low % MiB
    IN  IF 2 * r > MiB THEN q + 1
        ELSE IF 2 * r < MiB THEN q
        ELSE IF q % 2 = 0 THEN q ELSE q + 1

(* ----------------------------- file system ---------------------------- *)

\* A node is named by its path from the working directory, a sequence of
\* components; fs maps the nodes that exist to what they are.  The working
\* directory itself, <<>>, always exists.
DirNode == [kind |-> "dir", content |-> <<>>]
FileNode(c) == [kind |-> "file", content |-> c]

IsDir(f, node) == node = <<>> \/ (node \in DOMAIN f /\ f[node].kind = "dir")

\* os.path.isfile
IsFile(f, node) == node \in DOMAIN f /\ f[node].kind = "file"

Parent(node) == IF node = <<>> THEN <<>> ELSE SubSeq(node, 1, Len(node) - 1)

ENOENT == "[Errno 2] No such file or directory"
ENOTDIR == "[Errno 20] Not a directory"
EISDIR == "[Errno 21] Is a directory"
ENOSPC == "[Errno 28] No space left on device"

RECURSIVE Walk(_, _, _)
\* path resolution from node cur: every component but the last is looked up
\* in a directory that must exist
Walk(f, cur, comps) ==
    IF comps = <<>> THEN [ok |-> TRUE, node |-> cur, err |-> ""]
    ELSE IF ~IsDir(f, cur)
         THEN [ok |-> FALSE, node |-> cur,
               err |-> IF cur \in DOMAIN f THEN ENOTDIR ELSE ENOENT]
    ELSE LET c == Head(comps)
         IN  IF c = <<>> \/ c = <<".">> THEN Walk(f, cur, Tail(comps))
             ELSE IF c = <<".", ".">> THEN Walk(f, Parent(cur), Tail(comps))
             ELSE Walk(f, cur \o <<c>>, Tail(comps))

Resolve(f, path) == Walk(f, <<>>, SplitPath(path))

\* UPLOAD_DIR = "./uploaded_audio"
UPLOAD_DIR == <<".", "/", "u", "p", "l", "o", "a", "d", "e", "d", "_",
                "a", "u", "d", "i", "o">>

\* the node UPLOAD_DIR names
UploadNode == <<SubSeq(UPLOAD_DIR, 3, Len(UPLOAD_DIR))>>

\* Path(UPLOAD_DIR).mkdir(parents=True, exist_ok=True)
Mkdir(f) == IF UploadNode \in DOMAIN f THEN f ELSE (UploadNode :> DirNode) @@ f

\* os.listdir(dir): the nodes directly inside node dir
ListDir(f, dir) ==
    {p \in DOMAIN f : Len(p) = Len(dir) + 1 /\ SubSeq(p, 1, Len(dir)) = dir}

\* what open(path, 'wb') followed by write(new) leaves in a file that held old
WrittenAppend(old, new) == Norm(old \o new)
WrittenNoTruncate(old, new) == Norm(new \o Drop(old, Size(new)))
Written(old, new) == new

\* the bytes in a node (nothing when it is no file)
ContentAt(f, node) == IF IsFile(f, node) THEN f[node].content ELSE <<>>

\* SUPPORTED_AUDIO_FORMATS
SUPPORTED_AUDIO_FORMATS ==
    { <<".", "m", "p", "3">>, <<".", "w", "a", "v">>, <<".", "m", "4", "a">>,
      <<".", "f", "l", "a", "c">>, <<".", "o", "g", "g">>, <<".", "a", "a", "c">>,
      <<".", "w", "m", "a">>, <<".", "o", "p", "u", "s">> }

MAX_FILE_SIZE == 100 * 1024 * 1024

(* ------------------------------ parse_audio --------------------------- *)

\* the exception parse_audio raises for the error e of open or write
SaveError(e) == <<"Failed to save uploaded Audio: ", e>>

\* A fault is what the device does to this write: nothing, or the device is
\* full after k bytes, so that write (or the flush of close) raises once the
\* file has been opened and truncated.
NoFault == [kind |-> "none", k |-> 0]
DiskFull(k) == [kind |-> "write", k |-> k]

\* parse_audio(file_content, file_name) on file system f under a fault: the
\* file system it leaves, the path it returns, the error of open or write ("": none), the
\* exception it raises for it (<<>>: none), and the node it opened
\* (opened = FALSE: open raised)
parse_audio(f, file_content, file_name, fault) ==
    LET output_path == PathJoin(UPLOAD_DIR, file_name)
        r == Resolve(f, output_path)
        old == ContentAt(f, r.node)
    IN  IF ~r.ok
        THEN [fs |-> f, path |-> output_path, err |-> r.err, exc |-> SaveError(r.err),
              opened |-> FALSE, node |-> r.node]
        ELSE IF IsDir(f, r.node)
        THEN [fs |-> f, path |-> output_path, err |-> EISDIR, exc |-> SaveError(EISDIR),
              opened |-> FALSE, node |-> r.node]
        ELSE IF fault.kind = "write"
        THEN [fs |-> (r.node :> FileNode(Written(old, Take(file_content, fault.k)))) @@ f,
              path |-> output_path, err |-> ENOSPC, exc |-> SaveError(ENOSPC),
              opened |-> TRUE, node |-> r.node]
        ELSE [fs |-> (r.node :> FileNode(Written(old, file_content))) @@ f,
              path |-> output_path, err |-> "", exc |-> <<>>,
              opened |-> TRUE, node |-> r.node]

(* ------------------------------ upload_audio -------------------------- *)

\* file_extension = os.path.splitext(file.filename)[1].lower()
file_extension(filename) == Lower(SplitExt(filename))

\* if file_extension not in SUPPORTED_AUDIO_FORMATS
ExtensionRejectedUnlessNone(ext) == ext # <<>> /\ ext \notin SUPPORTED_AUDIO_FORMATS
ExtensionRejected(ext) == ext \notin SUPPORTED_AUDIO_FORMATS

\* if len(file_content) > MAX_FILE_SIZE
TooLargeInclusive(n) == n >= MAX_FILE_SIZE
TooLargeWholeMb(n) == n \div MiB > MAX_FILE_SIZE \div MiB
TooLarge(n) == n > MAX_FILE_SIZE

HttpError(code, detail) == [code |-> code, body |-> [detail |-> detail]]

UnsupportedFormat ==
    HttpError(400, <<"Unsupported audio format. Supported formats: ",
                     ".mp3, .wav, .m4a, .flac, .ogg, .aac, .wma, .opus">>)
FileTooLarge ==
    HttpError(413, <<"File too large. Maximum size is ", "100.0", "MB">>)
EmptyFile == HttpError(400, <<"Empty file uploaded">>)

\* except Exception as e: raise HTTPException(500, f"Internal server error: {e}")
InternalErrorGeneric(e) == HttpError(500, <<"Internal server error">>)
InternalError(e) == HttpError(500, <<"Internal server error: ">> \o e)

\* the UploadResponse of a saved upload
UploadResponse(file_path, extension, file_size_bytes) ==
    [code |-> 200,
     body |-> [status |-> "success",
               filename |-> Basename(file_path),
               file_size_mb |-> SizeMb(file_size_bytes),
               file_path |-> file_path,
               audio_format |-> LStripDots(extension),
               message |-> <<"Successfully uploaded audio file: ", Basename(file_path)>>]]

\* upload_audio from the return of file.read() on: the response, and what
\* parse_audio did (saved.opened = FALSE when it was not called)
upload_audio(f, filename, file_content, fault) ==
    LET untouched == [fs |-> f, path |-> <<>>, err |-> "", exc |-> <<>>,
                      opened |-> FALSE, node |-> <<>>]
    IN  IF TooLarge(Size(file_content))
        THEN [resp |-> FileTooLarge, saved |-> untouched, valid |-> FALSE]
        ELSE IF Size(file_content) = 0
        THEN [resp |-> EmptyFile, saved |-> untouched, valid |-> FALSE]
        ELSE LET saved == parse_audio(f, file_content, filename, fault)
             IN  [resp |-> IF saved.exc = <<>>
                           THEN UploadResponse(saved.path, file_extension(filename),
                                               Size(file_content))
                           ELSE InternalError(saved.exc),
                  saved |-> saved, valid |-> TRUE]

(* ------------------------------ health, files, root ------------------- *)

\* os.path.exists(UPLOAD_DIR)
UploadDirExists(f) == Resolve(f, UPLOAD_DIR).ok /\ IsDir(f, Resolve(f, UPLOAD_DIR).node)

\* [f for f in os.listdir(UPLOAD_DIR) if os.path.isfile(...)]
CountedEvenIfDir(f, p) == TRUE
Counted(f, p) == IsFile(f, p)

StoredFiles(f) == {p \in ListDir(f, UploadNode) : Counted(f, p)}

\* health_check; mkdirFails: the mkdir of a missing directory raises
health_check(f, mkdirFails) ==
    IF ~UploadDirExists(f) /\ mkdirFails
    THEN [fs |-> f, resp |-> HttpError(503, <<"Service unhealthy">>)]
    ELSE LET g == IF UploadDirExists(f) THEN f ELSE Mkdir(f)
         IN  [fs |-> g,
              resp |-> [code |-> 200,
                        body |-> [status |-> "healthy",
                                  message |-> "Audio Ingestion API is running",
                                  total_files |-> Cardinality(StoredFiles(g))]]]

\* one entry of the listing of list_files
ListingEntry(f, p) ==
    [filename |-> p[Len(p)],
     size_mb |-> SizeMb(Size(f[p].content)),
     path |-> PathJoin(UPLOAD_DIR, p[Len(p)])]

\* list_files; the order of os.listdir is unspecified: the entries are a set
list_files(f) ==
    IF ~UploadDirExists(f)
    THEN HttpError(500, <<"Failed to list files: ", ENOENT>>)
    ELSE [code |-> 200,
          body |-> [total_files |-> Cardinality(StoredFiles(f)),
                    files |-> {ListingEntry(f, p) : p \in StoredFiles(f)}]]

\* root
root ==
    [code |-> 200,
     body |-> [service |-> "Audio Ingestion API", version |-> "1.0.0",
               supported_formats |-> SUPPORTED_AUDIO_FORMATS,
               max_file_size |-> "100MB", upload_directory |-> UPLOAD_DIR]]

(* ------------------------------ requests ------------------------------ *)

NameMp3 == <<"a", ".", "m", "p", "3">>
NameWavUpper == <<"a", ".", "W", "A", "V">>
NameM4aParent == <<".", ".", "/", "a", ".", "m", "4", "a">>
NameFlacSub == <<"d", "/", "a", ".", "f", "l", "a", "c">>
NameOgg == <<"a", ".", "o", "g", "g">>
NameAac == <<"a", ".", "a", "a", "c">>
NameWma == <<"a", ".", "w", "m", "a">>
NameOpusMixed == <<"a", ".", "O", "p", "u", "s">>
NameTxt == <<"a", ".", "t", "x", "t">>
NameMp3Txt == <<"a", ".", "m", "p", "3", ".", "t", "x", "t">>
NameNoExt == <<"a">>
NameDotOnly == <<".", "m", "p", "3">>
NameDotDir == <<"d", ".", "m", "p", "3", "/", "a">>

Empty == <<>>
Small == Run("A", 10)
Tie == Run("B", 131072)
Exact == Run("A", MAX_FILE_SIZE)
Over == Run("B", MAX_FILE_SIZE + 1)

\* the uploads a client sends, file name and body, while the service runs
\* with the other requests and the environment
Requests ==
    ({NameMp3} \X {Empty, Small, Tie, Exact, Over})
    \cup ({NameWavUpper, NameM4aParent, NameFlacSub} \X {Small})
    \cup ({NameTxt} \X {Small})

\* the uploads a client sends to the validation alone
AllNames ==
    {NameMp3, NameWavUpper, NameM4aParent, NameFlacSub, NameOgg, NameAac, NameWma,
     NameOpusMixed, NameTxt, NameMp3Txt, NameNoExt, NameDotOnly, NameDotDir}
AllRequests == AllNames \X {Empty, Small, Tie, Exact, Over}

\* io.DEFAULT_BUFFER_SIZE: a shorter content stays in the buffer of f until
\* close flushes it
BufferSize == 8192

\* what the device may do to the write of content c: a full device fails the
\* flush of a buffered content whole, and a long content part way
Faults(c) == {NoFault, DiskFull(IF Size(c) <= BufferSize THEN 0 ELSE Size(c) \div 2)}

\* a directory somebody makes inside the storage directory
SubdirNode == UploadNode \o << <<"d">> >>

(* ------------------------------ state --------------------------------- *)

VARIABLES
    fs,         \* the file system
    inflight,   \* uploads suspended in `await file.read()`
    nreq,       \* uploads started
    last,       \* the request that completed last, its response, and in
                \* `follows` what the request completed just before it was
    lastWrite   \* per node: the content of the last write to it, and how it ended

vars == <<fs, inflight, nreq, last, lastWrite>>

EmptyFcn == [x \in {} |-> x]

\* what a step that took the file system from f to g did to it
Effect(f, g) ==
    [added |-> DOMAIN g \ DOMAIN f,
     removed |-> DOMAIN f \ DOMAIN g,
     rewritten |-> {p \in DOMAIN f \cap DOMAIN g : f[p] # g[p]}]

NoEffect == Effect(EmptyFcn, EmptyFcn)

\* the record of a completed request: the request, the response, the error
\* of open or write inside it, and what it did to the file system
Completed(op, filename, content, resp, raced, follows, oserror, effect) ==
    [op |-> op, filename |-> filename, content |-> content,
     code |-> resp.code, body |-> resp.body, raced |-> raced, follows |-> follows,
     oserror |-> oserror, effect |-> effect]

NoResponse == [code |-> 0, body |-> <<>>]

\* no request has completed since the service started
Nothing == Completed("none", <<>>, <<>>, NoResponse, FALSE, <<>>, "", NoEffect)

\* no request has completed since the environment changed the storage
Disturbed == Completed("env", <<>>, <<>>, NoResponse, FALSE, <<>>, "", NoEffect)

\* module import: Path(UPLOAD_DIR).mkdir(parents=True, exist_ok=True) in a
\* working directory that holds no storage directory yet
Init ==
    /\ fs = Mkdir(EmptyFcn)
    /\ inflight = {}
    /\ nreq = 0
    /\ last = Nothing
    /\ lastWrite = EmptyFcn

\* POST /upload up to `file_content = await file.read()`: the extension
\* check answers 400, or the handler is suspended
UploadBeginFrom(requests, max) ==
    /\ nreq < max
    /\ \E rq \in requests :
        /\ nreq' = nreq + 1
        /\ IF ExtensionRejected(file_extension(rq[1]))
           THEN /\ last' = Completed("upload", rq[1], rq[2], UnsupportedFormat, FALSE, <<>>,
                                            "", NoEffect)
                /\ UNCHANGED inflight
           ELSE /\ inflight' = inflight \cup
                        {[id |-> nreq + 1, filename |-> rq[1], content |-> rq[2],
                          raced |-> FALSE]}
                /\ UNCHANGED last
    /\ UNCHANGED <<fs, lastWrite>>

UploadBegin == UploadBeginFrom(Requests, MaxUploads)

\* POST /upload from the return of file.read() to the response; nothing in
\* it awaits, so the event loop runs it as one step.  An upload is raced
\* when another upload of its file name, with another content, was saved
\* while it was suspended.
UploadFinish ==
    \E r \in inflight : \E fault \in Faults(r.content) :
        LET u == upload_audio(fs, r.filename, r.content, fault)
            peers == {q \in inflight \ {r} :
                        q.filename = r.filename /\ q.content # r.content}
        IN  /\ fs' = u.saved.fs
            /\ last' = Completed("upload", r.filename, r.content, u.resp, r.raced,
                                 IF last.op = "upload" /\ last.code = 200
                                    /\ last.filename = r.filename
                                 THEN <<last.content>> ELSE <<>>,
                                 u.saved.err, Effect(fs, u.saved.fs))
            /\ inflight' =
                 IF u.resp.code = 200
                 THEN (inflight \ ({r} \cup peers))
                      \cup {[q EXCEPT !.raced = TRUE] : q \in peers}
                 ELSE inflight \ {r}
            /\ lastWrite' =
                 IF u.saved.opened
                 THEN (u.saved.node :> [content |-> r.content, ok |-> u.saved.exc = <<>>,
                                        raced |-> r.raced]) @@ lastWrite
                 ELSE lastWrite
            /\ UNCHANGED nreq

\* GET /health
Health ==
    \E mkdirFails \in BOOLEAN :
        LET h == health_check(fs, mkdirFails)
        IN  /\ fs' = h.fs
            /\ last' = Completed("health", <<>>, <<>>, h.resp, FALSE,
                                 IF last.op = "health" /\ last.code = 200
                                 THEN <<last.body.total_files>> ELSE <<>>,
                                 "", Effect(fs, h.fs))
            /\ UNCHANGED <<inflight, nreq, lastWrite>>

\* GET /files
Files ==
    /\ last' = Completed("files", <<>>, <<>>, list_files(fs), FALSE,
                         IF last.op = "upload" /\ last.code = 200
                         THEN <<last.filename, last.content>> ELSE <<>>,
                         "", NoEffect)
    /\ UNCHANGED <<fs, inflight, nreq, lastWrite>>

\* GET /
Root ==
    /\ last' = Completed("root", <<>>, <<>>, root, FALSE, <<>>, "", NoEffect)
    /\ UNCHANGED <<fs, inflight, nreq, lastWrite>>

\* somebody removes the storage directory and all it holds
EnvRemoveDir ==
    /\ UploadNode \in DOMAIN fs
    /\ LET kept == {p \in DOMAIN fs : SubSeq(p, 1, 1) # UploadNode}
       IN  /\ fs' = [p \in kept |-> fs[p]]
           /\ lastWrite' = [p \in DOMAIN lastWrite \cap kept |-> lastWrite[p]]
    /\ last' = Disturbed
    /\ UNCHANGED <<inflight, nreq>>

\* somebody makes a directory inside the storage directory
EnvMkSubdir ==
    /\ UploadDirExists(fs)
    /\ SubdirNode \notin DOMAIN fs
    /\ fs' = (SubdirNode :> DirNode) @@ fs
    /\ last' = Disturbed
    /\ UNCHANGED <<inflight, nreq, lastWrite>>

Next ==
    \/ UploadBegin
    \/ UploadFinish
    \/ Health
    \/ Files
    \/ Root
    \/ EnvRemoveDir
    \/ EnvMkSubdir

Spec == Init /\ [][Next]_vars

\* the validation of one upload, over every kind of file name and body
UploadAny == UploadBeginFrom(AllRequests, MaxValidated)

NextValidation ==
    \/ UploadAny
    \/ UploadFinish
    \/ Files

SpecValidation == Init /\ [][NextValidation]_vars

\* the service alone: nobody else touches the storage directory
NextService ==
    \/ UploadBegin
    \/ UploadFinish
    \/ Health
    \/ Files
    \/ Root

SpecService == Init /\ [][NextService]_vars

(* ------------------------------ properties ---------------------------- *)

\* the file name's lower-cased extension is in the allow-list
Allowed(filename) == file_extension(filename) \in SUPPORTED_AUDIO_FORMATS

\* the content is non-empty and not larger than 100 MiB
SizeOk(content) == Size(content) > 0 /\ Size(content) <= 100 * 1024 * 1024

\* the file name has a directory part
HasSlash(filename) == \E i \in 1..Len(filename) : filename[i] = "/"

\* the regular files directly inside the storage directory
RegularFiles == {p \in DOMAIN fs : Len(p) = 2 /\ <<p[1]>> = UploadNode /\ fs[p].kind = "file"}

\* the listing `body` has an entry for filename with the size of content
Listed(body, filename, content) ==
    \E e \in body.files : e.filename = filename /\ e.size_mb = SizeMb(Size(content))

C2_BadExtensionIs400 ==
    last.op = "upload" /\ ~Allowed(last.filename)
        => last.code = 400 /\ last.body = UnsupportedFormat.body

\* a file name without extension, sent with more than 100 MiB, got 400
C2_Witness ==
    /\ last.op = "upload"
    /\ last.filename = NameNoExt
    /\ Size(last.content) > 100 * 1024 * 1024
    /\ last.code = 400

\* C3 as stated: every upload of more than 100 MiB is answered 413, for
\* every file name.
C3_Original ==
    last.op = "upload" /\ Size(last.content) > 100 * 1024 * 1024 => last.code = 413

\* C3 as amended: an upload of more than 100 MiB is answered 413 when the
\* extension of its file name is in the allow-list, and 400 when it is not.
C3_OversizedIs413IfAllowed ==
    last.op = "upload" /\ Size(last.content) > 100 * 1024 * 1024
        => last.code = IF Allowed(last.filename) THEN 413 ELSE 400

\* 100 MiB + 1 byte sent as a.WAV got 413
C3_Witness ==
    /\ last.op = "upload"
    /\ last.filename = NameWavUpper
    /\ Size(last.content) = 100 * 1024 * 1024 + 1
    /\ last.code = 413

\* the node that <storage_dir>/<filename> names
Target(filename) == Resolve(fs, PathJoin(UPLOAD_DIR, filename)).node

\* C4: when an upload answered 200 follows, with nothing in between and not
\* overlapping it, an upload of the same file name answered 200 with another
\* content, there is exactly one file of that name and it holds the second
\* content.
C4_SecondUploadOverwrites ==
    /\ last.op = "upload" /\ last.code = 200 /\ ~last.raced
    /\ last.follows # <<>> /\ last.follows[1] # last.content
    => /\ IsFile(fs, Target(last.filename))
       /\ fs[Target(last.filename)].content = last.content
       /\ Cardinality({p \in ListDir(fs, Parent(Target(last.filename))) :
                          p[Len(p)] = Basename(last.filename)}) = 1

\* The 10 bytes of A were uploaded as a.mp3 right after the 131072 bytes of
\* B, and a.mp3 holds the 10 bytes of A
C4_Witness ==
    /\ last.op = "upload" /\ last.code = 200 /\ ~last.raced
    /\ last.filename = NameMp3 /\ last.content = Small
    /\ last.follows = <<Tie>>
    /\ fs[Target(NameMp3)].content = Small

C6_Original ==
    last.op = "health"
        => /\ last.code = 200
           /\ last.body.status = "healthy"
           /\ last.body.total_files = Cardinality(RegularFiles)
           /\ last.effect = NoEffect
           /\ last.follows # <<>> => last.body.total_files = last.follows[1]

\* C6 as amended: GET /health, unless it answers 503, answers "healthy"
\* with total_files = the number of regular files in the storage directory
\* (subdirectories not counted); it removes and rewrites nothing, and all it
\* may add is the storage directory itself, when that was missing; repeated
\* at once it returns the same count.
C6_HealthCountsAndKeepsFiles ==
    last.op = "health"
        => /\ last.code \in {200, 503}
           /\ last.code = 200
                => /\ last.body.status = "healthy"
                   /\ last.body.total_files = Cardinality(RegularFiles)
                   /\ last.follows # <<>> => last.body.total_files = last.follows[1]
           /\ last.effect.removed = {}
           /\ last.effect.rewritten = {}
           /\ last.effect.added \subseteq {UploadNode}
           /\ last.effect.added # {} => fs[UploadNode] = DirNode

\* GET /health, repeated, counted the one file beside a subdirectory
C6_Witness ==
    /\ last.op = "health" /\ last.code = 200
    /\ IsDir(fs, SubdirNode)
    /\ last.body.total_files = 1
    /\ last.follows = <<1>>

\* C7: an upload that passes validation is saved as
\* <storage_dir>/<filename> and answered 200 also when the storage directory
\* is missing at the time of the request (the device not being full).
C7_UploadCreatesStorageDir ==
    /\ last.op = "upload" /\ Allowed(last.filename) /\ SizeOk(last.content)
    /\ ~HasSlash(last.filename) /\ last.oserror # ENOSPC
    => /\ last.code = 200
       /\ UploadDirExists(fs)
       /\ ContentAt(fs, UploadNode \o <<last.filename>>) = last.content

\* C8: an upload that passes validation and whose open or write raises is
\* answered 500 with the error's message in the detail, and upload answers
\* 500 in no other case.
C8_WriteFailureIs500 ==
    last.op = "upload"
        => /\ Allowed(last.filename) /\ SizeOk(last.content) /\ last.oserror # ""
                => /\ last.code = 500
                   /\ \E i \in DOMAIN last.body.detail :
                          last.body.detail[i] = last.oserror
           /\ last.code = 500
                => Allowed(last.filename) /\ SizeOk(last.content) /\ last.oserror # ""

\* an upload that passed validation met a full device and got 500
C8_Witness ==
    /\ last.op = "upload" /\ Allowed(last.filename) /\ SizeOk(last.content)
    /\ last.oserror = ENOSPC
    /\ last.code = 500

\* C9: no request of the service removes a file, and only an upload
\* answered 200 adds one.
C9_NothingDeletedOnly200Adds ==
    /\ last.effect.removed = {}
    /\ (\E p \in last.effect.added : IsFile(fs, p))
         => last.op = "upload" /\ last.code = 200

\* C10: with the service alone at work on a storage directory that was
\* empty, every file in it has an allow-listed extension and holds the whole
\* content, of 1 byte to 100 MiB, of an upload that passes validation; and
\* an upload answered 400, 413 or 500 has changed nothing.
C10_StoredFilesAreAcceptedUploads ==
    /\ \A p \in RegularFiles :
         /\ Allowed(p[2])
         /\ SizeOk(fs[p].content)
         /\ \E rq \in Requests :
              Allowed(rq[1]) /\ SizeOk(rq[2]) /\ Norm(rq[2]) = Norm(fs[p].content)
    /\ last.op = "upload" /\ last.code # 200 => last.effect = NoEffect

====
